---- MODULE Spec2Model ----
(***************************************************************************)
(* Ingestion and retrieval pipeline of the RAG chatbot backend:            *)
(*   backend/embedding_service.py  (ingestion, vector index population)    *)
(*   backend/search_service.py     (retrieval, context, citations)         *)
(*   backend/database.py           (document status store)                 *)
(*   backend/file_processor.py     (text extraction)                       *)
(*   backend/main.py               (upload and chat handlers)              *)
(***************************************************************************)
EXTENDS Integers, Sequences, FiniteSets, TLC

(***************************************************************************)
(* Bounds of the model.                                                    *)
(***************************************************************************)
MaxChunks == 2        \* a document splits into 1..MaxChunks chunks
MaxReingests == 2     \* ingestion reruns (after the run the upload schedules)

(***************************************************************************)
(* Program constants.                                                      *)
(***************************************************************************)
batch_size == 100           \* embedding_service.py:150
chunk_size == 1000          \* embedding_service.py:76
top_k == 5                  \* search_service.py:185
max_context_length == 4000  \* search_service.py:67

Users == {"u1", "u2"}
Docs == {"d1", "d2"}        \* doc_id values handed out by uuid4 in upload_document

\* The filename a document is uploaded under.
Filename(d) == IF d = "d1" THEN "policy.pdf" ELSE "faq.pdf"

\* The users who may upload a document.  Users are interchangeable, so the
\* first document is always uploaded by the first user; the second document
\* goes to the same tenant or to the other one.
Uploaders(d) == IF d = "d1" THEN {"u1"} ELSE Users

\* What the uploaded bytes hold: a file that cannot be parsed, a file with no
\* text in it, or a file that holds text.
Contents == {"unreadable", "blank", "text"}

NoDoc == [owner |-> "", filename |-> "", content |-> "", nchunks |-> 0]

Min(a, b) == IF a < b THEN a ELSE b

\* namespace = f"user_{user_id}"
NamespaceShared(user_id) == <<"user_">>
Namespace(user_id) == <<"user_", user_id>>

Namespaces == {Namespace(u) : u \in Users}

\* "id": f"{doc_id}_chunk_{i}"
VectorIdOfChunk(doc_id, i) == <<"chunk_", i>>
VectorId(doc_id, i) == <<doc_id, "_chunk_", i>>

\* Length of chunk i of a text that splits into n chunks: every chunk but the
\* last fills chunk_size, the last one holds the rest.
ChunkLength(n, i) == IF i < n - 1 THEN chunk_size ELSE 400

\* The vector built for chunk i in store_embeddings_in_pinecone.  gen stands
\* for the embedding values: it tells which run computed them.
MakeVector(user_id, doc_id, filename, n, i, gen) ==
    [id |-> VectorId(doc_id, i),
     user_id |-> user_id,
     doc_id |-> doc_id,
     doc_name |-> filename,
     chunk_id |-> i,
     text_len |-> Min(ChunkLength(n, i), 1000),
     gen |-> gen]

\* pinecone_index.upsert(vectors=batch, namespace=namespace): a vector whose
\* id is already in the namespace is overwritten.
UpsertAppend(content, batch) == content \cup batch
Upsert(content, batch) ==
    {v \in content : \A b \in batch : b.id # v.id} \cup batch

SeqToSet(s) == {s[k] : k \in 1..Len(s)}

\* Ascending sequence of the members of a set of chunk indices below n.
IndexSeq(S, n) ==
    LET all == [k \in 1..n |-> k - 1]
        Keep(i) == i \in S
    IN  SelectSeq(all, Keep)

\* update_embedding_status: one UPDATE ... WHERE doc_id = ...; when the call
\* to the store fails the exception is printed and swallowed.
update_embedding_status(st, d, s, ok) ==
    IF ok /\ st[d] # "none" THEN [st EXCEPT ![d] = s] ELSE st

VARIABLES
    pinecone_index,  \* TRUE: initialize_pinecone returned an index; FALSE: None
    doc,             \* doc_id -> the uploaded document (documents table + blob)
    status,          \* doc_id -> embedding_status column
    index,           \* namespace -> set of vectors stored in the vector index
    pc,              \* doc_id -> position of its background task
    attempt,         \* doc_id -> number of the current ingestion run
    vectors,         \* doc_id -> the list `vectors` of the current run
    next_batch,      \* doc_id -> loop variable i of the upsert loop
    embedded,        \* doc_id -> which embedding requests of this run succeeded
    upserted,        \* doc_id -> vectors sent in successful upserts of this run
    err,             \* doc_id -> the exception the current run raised, if any
    calls,           \* doc_id -> status writes issued by the current run
    outcome,         \* doc_id -> how the current run ended
    prev,            \* doc_id -> what the previous finished run left behind
    reingests,       \* number of reruns started so far
    reply,           \* what the last retrieval request returned
    found            \* matches handed to the response step on their own

vars == <<pinecone_index, doc, status, index, pc, attempt, vectors, next_batch,
          embedded, upserted, err, calls, outcome, prev, reingests, reply, found>>

NoPrev == [count |-> 0, upserted |-> {}, outcome |-> "none"]
NotEmbedded == [ran |-> FALSE, ok |-> {}]
NoReply == [user |-> "", query |-> "", fault |-> "none", response |-> "none",
            sources |-> <<>>, matches |-> <<>>, context |-> <<>>,
            embed_called |-> FALSE, gen_called |-> FALSE, raised |-> FALSE]

\* The vectors of a document that are in its owner's namespace.
DocVectors(d) ==
    IF doc[d] = NoDoc THEN {}
    ELSE {v \in index[Namespace(doc[d].owner)] : v.doc_id = d}

Init ==
    /\ pinecone_index \in BOOLEAN
    /\ doc = [d \in Docs |-> NoDoc]
    /\ status = [d \in Docs |-> "none"]
    /\ index = [ns \in Namespaces |-> {}]
    /\ pc = [d \in Docs |-> "idle"]
    /\ attempt = [d \in Docs |-> 0]
    /\ vectors = [d \in Docs |-> <<>>]
    /\ next_batch = [d \in Docs |-> 0]
    /\ embedded = [d \in Docs |-> NotEmbedded]
    /\ upserted = [d \in Docs |-> {}]
    /\ err = [d \in Docs |-> "none"]
    /\ calls = [d \in Docs |-> <<>>]
    /\ outcome = [d \in Docs |-> "none"]
    /\ prev = [d \in Docs |-> NoPrev]
    /\ reingests = 0
    /\ reply = NoReply
    /\ found = <<>>

(***************************************************************************)
(* main.py: upload_document.  Stores the blob, inserts the documents row   *)
(* with embedding_status 'pending' and schedules the background task.      *)
(***************************************************************************)
\* n_chunks tells into how many chunks the text of the file will split.
Upload(d, n_chunks) ==
    /\ pc[d] = "idle"
    /\ \E u \in Uploaders(d), c \in Contents, n \in n_chunks :
          /\ c # "text" => \A m \in n_chunks : n <= m
          /\ doc' = [doc EXCEPT ![d] =
                 [owner |-> u, filename |-> Filename(d), content |-> c,
                  nchunks |-> IF c = "text" THEN n ELSE 0]]
    /\ status' = [status EXCEPT ![d] = "pending"]
    /\ pc' = [pc EXCEPT ![d] = "start"]
    /\ attempt' = [attempt EXCEPT ![d] = 1]
    /\ UNCHANGED <<pinecone_index, index, vectors, next_batch, embedded,
                   upserted, err, calls, outcome, prev, reingests, reply, found>>

upload_document(d) == Upload(d, 1..MaxChunks)

\* The upload of a file whose text splits into more chunks than one upsert
\* batch takes: one chunk or a whole batch more than batch_size.
upload_long_document(d) == Upload(d, {batch_size + 1, 2 * batch_size + 1})

(***************************************************************************)
(* embedding_service.py: process_document_embeddings, one action per       *)
(* external call of the background task.                                   *)
(***************************************************************************)
\* update_embedding_status(doc_id, 'processing')
MarkProcessingPropagating(d) ==
    /\ pc[d] = "start"
    /\ \E ok \in BOOLEAN :
          /\ status' = update_embedding_status(status, d, "processing", ok)
          /\ calls' = [calls EXCEPT ![d] =
                 Append(@, [status |-> "processing", ok |-> ok])]
          /\ pc' = [pc EXCEPT ![d] = IF ok THEN "download" ELSE "except"]
          /\ err' = [err EXCEPT ![d] = IF ok THEN @ ELSE "status_write"]
    /\ UNCHANGED <<pinecone_index, doc, index, attempt, vectors, next_batch,
                   embedded, upserted, outcome, prev, reingests, reply, found>>
MarkProcessing(d) ==
    /\ pc[d] = "start"
    /\ \E ok \in BOOLEAN :
          /\ status' = update_embedding_status(status, d, "processing", ok)
          /\ calls' = [calls EXCEPT ![d] =
                 Append(@, [status |-> "processing", ok |-> ok])]
    /\ pc' = [pc EXCEPT ![d] = "download"]
    /\ UNCHANGED <<pinecone_index, doc, index, attempt, vectors, next_batch,
                   embedded, upserted, err, outcome, prev, reingests, reply, found>>

\* file_content = download_from_gcp(gcp_path)
Download(d) ==
    /\ pc[d] = "download"
    /\ \E ok \in BOOLEAN :
          IF ok
          THEN /\ pc' = [pc EXCEPT ![d] = "extract"]
               /\ err' = err
          ELSE /\ pc' = [pc EXCEPT ![d] = "except"]
               /\ err' = [err EXCEPT ![d] = "download"]
    /\ UNCHANGED <<pinecone_index, doc, status, index, attempt, vectors,
                   next_batch, embedded, upserted, calls, outcome, prev,
                   reingests, reply, found>>

\* file_processor.py: extract_text_from_file.  Every extractor raises when
\* the file cannot be read or when no text comes out of it, and returns the
\* stripped text otherwise.
extract_text_from_file(content) ==
    IF content = "text" THEN [raised |-> FALSE, blank |-> FALSE]
    ELSE [raised |-> TRUE, blank |-> TRUE]

\* text = extract_text_from_file(...); if not text.strip(): raise
ExtractText(d) ==
    /\ pc[d] = "extract"
    /\ LET r == extract_text_from_file(doc[d].content)
       IN  IF r.raised
           THEN /\ pc' = [pc EXCEPT ![d] = "except"]
                /\ err' = [err EXCEPT ![d] = "extract"]
           ELSE IF r.blank
           THEN /\ pc' = [pc EXCEPT ![d] = "except"]
                /\ err' = [err EXCEPT ![d] = "empty_text"]
           ELSE /\ pc' = [pc EXCEPT ![d] = "chunk"]
                /\ err' = err
    /\ UNCHANGED <<pinecone_index, doc, status, index, attempt, vectors,
                   next_batch, embedded, upserted, calls, outcome, prev,
                   reingests, reply, found>>

\* chunk_text: the number of chunks the splitter cuts the text into.
chunk_text(d) == doc[d].nchunks

\* chunks = chunk_text(text); if not chunks: raise; then the test of
\* pinecone_index that decides whether store_embeddings_in_pinecone runs.
ChunkText(d) ==
    /\ pc[d] = "chunk"
    /\ IF chunk_text(d) = 0
       THEN /\ pc' = [pc EXCEPT ![d] = "except"]
            /\ err' = [err EXCEPT ![d] = "no_chunks"]
       ELSE IF pinecone_index
       THEN /\ pc' = [pc EXCEPT ![d] = "embed"]
            /\ err' = err
       ELSE /\ pc' = [pc EXCEPT ![d] = "complete"]
            /\ err' = err
    /\ UNCHANGED <<pinecone_index, doc, status, index, attempt, vectors,
                   next_batch, embedded, upserted, calls, outcome, prev,
                   reingests, reply, found>>

\* The list `vectors` after the loop over enumerate(chunks): one vector for
\* each chunk whose embedding request succeeded, in chunk order, under the
\* chunk's own index i.
EmbeddedVectorsRenumbered(user_id, doc_id, filename, n, succeeded, gen) ==
    [k \in 1..Len(IndexSeq(succeeded, n)) |->
        MakeVector(user_id, doc_id, filename, n, k - 1, gen)]
EmbeddedVectors(user_id, doc_id, filename, n, succeeded, gen) ==
    [k \in 1..Len(IndexSeq(succeeded, n)) |->
        MakeVector(user_id, doc_id, filename, n, IndexSeq(succeeded, n)[k], gen)]

\* The chunks whose embedding request may fail: any chunk of a document that
\* fits one batch; of a longer document, the chunks at the ends of the
\* batches.
Failable(n) ==
    IF n <= batch_size THEN 0..(n - 1)
    ELSE {0, batch_size - 1, batch_size, n - 1}

\* if not vectors: raise Exception("No vectors generated from chunks")
NoVectorsUnchecked(vs) == FALSE
NoVectors(vs) == vs = <<>>

\* store_embeddings_in_pinecone, up to the upsert loop: the test of
\* pinecone_index, the loop that embeds each chunk and skips the chunks whose
\* embedding request fails, and the test of `vectors`.
EmbedChunks(d) ==
    /\ pc[d] = "embed"
    /\ IF ~pinecone_index
       THEN /\ pc' = [pc EXCEPT ![d] = "except"]
            /\ err' = [err EXCEPT ![d] = "not_initialized"]
            /\ UNCHANGED <<vectors, next_batch, embedded>>
       ELSE \E failed \in SUBSET Failable(chunk_text(d)) :
              LET succeeded == (0..(chunk_text(d) - 1)) \ failed
                  vs == EmbeddedVectors(doc[d].owner, d, doc[d].filename,
                                        chunk_text(d), succeeded, attempt[d])
              IN  /\ vectors' = [vectors EXCEPT ![d] = vs]
                  /\ embedded' = [embedded EXCEPT ![d] =
                         [ran |-> TRUE, ok |-> succeeded]]
                  /\ next_batch' = [next_batch EXCEPT ![d] = 0]
                  /\ IF NoVectors(vs)
                     THEN /\ pc' = [pc EXCEPT ![d] = "except"]
                          /\ err' = [err EXCEPT ![d] = "no_vectors"]
                     ELSE /\ pc' = [pc EXCEPT ![d] = "upsert"]
                          /\ err' = err
    /\ UNCHANGED <<pinecone_index, doc, status, index, attempt, upserted,
                   calls, outcome, prev, reingests, reply, found>>

\* One pass of the upsert loop: batch = vectors[i:i + batch_size];
\* pinecone_index.upsert(vectors=batch, namespace=namespace)
UpsertBatchRollback(d) ==
    /\ pc[d] = "upsert"
    /\ LET i == next_batch[d]
           batch == SeqToSet(SubSeq(vectors[d], i + 1,
                                    Min(i + batch_size, Len(vectors[d]))))
           namespace == Namespace(doc[d].owner)
       IN  \E ok \in BOOLEAN :
             IF ok
             THEN /\ index' = [index EXCEPT ![namespace] = Upsert(@, batch)]
                  /\ upserted' = [upserted EXCEPT ![d] = @ \cup batch]
                  /\ next_batch' = [next_batch EXCEPT ![d] = i + batch_size]
                  /\ pc' = [pc EXCEPT ![d] =
                         IF i + batch_size < Len(vectors[d])
                         THEN "upsert" ELSE "complete"]
                  /\ err' = err
             ELSE /\ pc' = [pc EXCEPT ![d] = "except"]
                  /\ err' = [err EXCEPT ![d] = "upsert"]
                  /\ index' = [index EXCEPT ![namespace] =
                         {v \in @ : v.doc_id # d}]
                  /\ UNCHANGED <<upserted, next_batch>>
    /\ UNCHANGED <<pinecone_index, doc, status, attempt, vectors, embedded,
                   calls, outcome, prev, reingests, reply, found>>
UpsertBatch(d) ==
    /\ pc[d] = "upsert"
    /\ LET i == next_batch[d]
           batch == SeqToSet(SubSeq(vectors[d], i + 1,
                                    Min(i + batch_size, Len(vectors[d]))))
           namespace == Namespace(doc[d].owner)
       IN  \E ok \in BOOLEAN :
             IF ok
             THEN /\ index' = [index EXCEPT ![namespace] = Upsert(@, batch)]
                  /\ upserted' = [upserted EXCEPT ![d] = @ \cup batch]
                  /\ next_batch' = [next_batch EXCEPT ![d] = i + batch_size]
                  /\ pc' = [pc EXCEPT ![d] =
                         IF i + batch_size < Len(vectors[d])
                         THEN "upsert" ELSE "complete"]
                  /\ err' = err
             ELSE /\ pc' = [pc EXCEPT ![d] = "except"]
                  /\ err' = [err EXCEPT ![d] = "upsert"]
                  /\ UNCHANGED <<index, upserted, next_batch>>
    /\ UNCHANGED <<pinecone_index, doc, status, attempt, vectors, embedded,
                   calls, outcome, prev, reingests, reply, found>>

\* What a finished run leaves behind for the next one to be compared with.
Left(d, idx) ==
    [count |-> Cardinality({v \in idx[Namespace(doc[d].owner)] : v.doc_id = d}),
     upserted |-> {v.chunk_id : v \in upserted[d]},
     outcome |-> outcome[d]]

\* update_embedding_status(doc_id, 'completed'); the task returns.
MarkCompleted(d) ==
    /\ pc[d] = "complete"
    /\ \E ok \in BOOLEAN :
          /\ status' = update_embedding_status(status, d, "completed", ok)
          /\ calls' = [calls EXCEPT ![d] =
                 Append(@, [status |-> "completed", ok |-> ok])]
    /\ pc' = [pc EXCEPT ![d] = "done"]
    /\ outcome' = [outcome EXCEPT ![d] = "returned"]
    /\ UNCHANGED <<pinecone_index, doc, index, attempt, vectors, next_batch,
                   embedded, upserted, err, prev, reingests, reply, found>>

\* except Exception: update_embedding_status(doc_id, 'failed'); raise
HandleExceptionSwallow(d) ==
    /\ pc[d] = "except"
    /\ \E ok \in BOOLEAN :
          /\ status' = update_embedding_status(status, d, "failed", ok)
          /\ calls' = [calls EXCEPT ![d] =
                 Append(@, [status |-> "failed", ok |-> ok])]
    /\ pc' = [pc EXCEPT ![d] = "done"]
    /\ outcome' = [outcome EXCEPT ![d] = "returned"]
    /\ UNCHANGED <<pinecone_index, doc, index, attempt, vectors, next_batch,
                   embedded, upserted, err, prev, reingests, reply, found>>
HandleException(d) ==
    /\ pc[d] = "except"
    /\ \E ok \in BOOLEAN :
          /\ status' = update_embedding_status(status, d, "failed", ok)
          /\ calls' = [calls EXCEPT ![d] =
                 Append(@, [status |-> "failed", ok |-> ok])]
    /\ pc' = [pc EXCEPT ![d] = "done"]
    /\ outcome' = [outcome EXCEPT ![d] = "raised"]
    /\ UNCHANGED <<pinecone_index, doc, index, attempt, vectors, next_batch,
                   embedded, upserted, err, prev, reingests, reply, found>>

\* A new ingestion attempt for a document whose last run has ended:
\* process_document_embeddings is called again with the same arguments.
Reingest(d) ==
    /\ pc[d] = "done"
    /\ reingests < MaxReingests
    /\ reingests' = reingests + 1
    /\ prev' = [prev EXCEPT ![d] = Left(d, index)]
    /\ attempt' = [attempt EXCEPT ![d] = @ + 1]
    /\ pc' = [pc EXCEPT ![d] = "start"]
    /\ vectors' = [vectors EXCEPT ![d] = <<>>]
    /\ next_batch' = [next_batch EXCEPT ![d] = 0]
    /\ embedded' = [embedded EXCEPT ![d] = NotEmbedded]
    /\ upserted' = [upserted EXCEPT ![d] = {}]
    /\ err' = [err EXCEPT ![d] = "none"]
    /\ calls' = [calls EXCEPT ![d] = <<>>]
    /\ outcome' = [outcome EXCEPT ![d] = "none"]
    /\ UNCHANGED <<pinecone_index, doc, status, index, reply, found>>

process_document_embeddings(d) ==
    \/ MarkProcessing(d)
    \/ Download(d)
    \/ ExtractText(d)
    \/ ChunkText(d)
    \/ EmbedChunks(d)
    \/ UpsertBatch(d)
    \/ MarkCompleted(d)
    \/ HandleException(d)

(***************************************************************************)
(* search_service.py: the retrieval pipeline.                              *)
(***************************************************************************)
\* Similarity scores are counted in 1/10000.  The k-th nearest vector of a
\* query gets ScoreAt(k).
ScoreAt(k) == 9004 - 902 * (k - 1)

\* round(score, 3), in the same unit.
Round3(score) == ((score + 5) \div 10) * 10

\* Position of a vector in the answer of the index: the chunks of the document
\* nearest to the query come first, in chunk order.
RankKey(v, nearest) == (IF v.doc_id = nearest THEN 0 ELSE 1000) + v.chunk_id

RECURSIVE Ranked(_, _)
Ranked(S, nearest) ==
    IF S = {} THEN <<>>
    ELSE LET v == CHOOSE x \in S :
                     \A y \in S : RankKey(x, nearest) <= RankKey(y, nearest)
         IN  <<v>> \o Ranked(S \ {v}, nearest)

\* pinecone_index.query(vector, namespace, top_k, include_metadata=True) and
\* the loop that formats the matches.
QueryIndex(idx, namespace, k, nearest) ==
    LET all == Ranked(idx[namespace], nearest)
        hits == SubSeq(all, 1, Min(k, Len(all)))
    IN  [j \in 1..Len(hits) |->
            [id |-> hits[j].id,
             score |-> ScoreAt(j),
             user_id |-> hits[j].user_id,
             text_len |-> hits[j].text_len,
             doc_name |-> hits[j].doc_name,
             doc_id |-> hits[j].doc_id,
             chunk_id |-> hits[j].chunk_id]]

\* search_similar_documents.  env tells what the providers do on this
\* request: which call fails, if any, and which document is nearest to the
\* query.
search_similar_documents(query, user_id, k, idx, env) ==
    IF ~pinecone_index
    THEN [raised |-> TRUE, embed_called |-> FALSE, results |-> <<>>]
    ELSE IF env.fault = "embed"
    THEN [raised |-> TRUE, embed_called |-> TRUE, results |-> <<>>]
    ELSE IF env.fault = "query"
    THEN [raised |-> TRUE, embed_called |-> TRUE, results |-> <<>>]
    ELSE [raised |-> FALSE, embed_called |-> TRUE,
          results |-> QueryIndex(idx, Namespace(user_id), k, env.nearest)]

\* A filename of 3990 characters, written short.
LongName == "long-name.pdf"

\* len(doc_name)
NameLength(doc_name) == IF doc_name = LongName THEN 3990 ELSE Len(doc_name)

\* len(f"[From {doc_name}]: {text}")
FormattedLength(chunk) ==
    6 + NameLength(chunk.doc_name) + 3 + chunk.text_len

\* The loop that fills context_parts: the lengths of the formatted chunks
\* taken, up to the first one that would go over max_length.
RECURSIVE ContextPartsSkipping(_, _, _, _)
ContextPartsSkipping(chunks, k, current_length, max_length) ==
    IF k > Len(chunks) THEN <<>>
    ELSE IF current_length + FormattedLength(chunks[k]) > max_length
    THEN ContextPartsSkipping(chunks, k + 1, current_length, max_length)
    ELSE <<FormattedLength(chunks[k])>> \o
         ContextPartsSkipping(chunks, k + 1,
                              current_length + FormattedLength(chunks[k]),
                              max_length)

RECURSIVE ContextParts(_, _, _, _)
ContextParts(chunks, k, current_length, max_length) ==
    IF k > Len(chunks) THEN <<>>
    ELSE IF current_length + FormattedLength(chunks[k]) > max_length THEN <<>>
    ELSE <<FormattedLength(chunks[k])>> \o
         ContextParts(chunks, k + 1,
                      current_length + FormattedLength(chunks[k]), max_length)

RECURSIVE SumSeq(_)
SumSeq(s) == IF s = <<>> THEN 0 ELSE Head(s) + SumSeq(Tail(s))

\* len("\n\n".join(context_parts))
JoinedLength(parts) ==
    IF parts = <<>> THEN 0 ELSE SumSeq(parts) + 2 * (Len(parts) - 1)

\* generate_response_with_context
generate_response_with_context(query, context_chunks, env) ==
    IF context_chunks = <<>>
    THEN [raised |-> FALSE, response |-> "no_info_short", gen_called |-> FALSE,
          context |-> <<>>]
    ELSE LET parts == ContextParts(context_chunks, 1, 0, max_context_length)
         IN  IF env.fault # "generate"
             THEN [raised |-> FALSE, response |-> "generated",
                   gen_called |-> TRUE, context |-> parts]
             ELSE [raised |-> TRUE, response |-> "none",
                   gen_called |-> TRUE, context |-> parts]

\* extract_source_citations, the loop over search_results: `sources` is a
\* dict, kept here as the sequence of its values in insertion order; writing
\* to a key that is present keeps its place.
RECURSIVE CollectSourcesByDocId(_, _, _)
CollectSourcesByDocId(results, k, sources) ==
    IF k > Len(results) THEN sources
    ELSE LET r == results[k]
             entry == [doc_name |-> r.doc_name, doc_id |-> r.doc_id,
                       relevance_score |-> Round3(r.score)]
             at == {j \in 1..Len(sources) : sources[j].doc_id = r.doc_id}
         IN  IF at = {}
             THEN CollectSourcesByDocId(results, k + 1, Append(sources, entry))
             ELSE LET j == CHOOSE x \in at : TRUE
                  IN  IF sources[j].relevance_score < r.score
                      THEN CollectSourcesByDocId(results, k + 1,
                                                 [sources EXCEPT ![j] = entry])
                      ELSE CollectSourcesByDocId(results, k + 1, sources)

RECURSIVE CollectSources(_, _, _)
CollectSources(results, k, sources) ==
    IF k > Len(results) THEN sources
    ELSE LET r == results[k]
             entry == [doc_name |-> r.doc_name, doc_id |-> r.doc_id,
                       relevance_score |-> Round3(r.score)]
             at == {j \in 1..Len(sources) : sources[j].doc_name = r.doc_name}
         IN  IF at = {}
             THEN CollectSources(results, k + 1, Append(sources, entry))
             ELSE LET j == CHOOSE x \in at : TRUE
                  IN  IF sources[j].relevance_score < r.score
                      THEN CollectSources(results, k + 1,
                                          [sources EXCEPT ![j] = entry])
                      ELSE CollectSources(results, k + 1, sources)

\* sorted(..., key=relevance_score, reverse=True): a stable sort, entries of
\* equal score keep their order.
RECURSIVE SortedSourcesUnstable(_)
SortedSourcesUnstable(s) ==
    IF s = <<>> THEN <<>>
    ELSE LET top == CHOOSE j \in 1..Len(s) :
                        /\ \A i \in 1..Len(s) :
                              s[i].relevance_score <= s[j].relevance_score
                        /\ \A i \in (j + 1)..Len(s) :
                              s[i].relevance_score < s[j].relevance_score
             rest == [i \in 1..(Len(s) - 1) |-> IF i < top THEN s[i] ELSE s[i + 1]]
         IN  <<s[top]>> \o SortedSourcesUnstable(rest)

RECURSIVE SortedSources(_)
SortedSources(s) ==
    IF s = <<>> THEN <<>>
    ELSE LET top == CHOOSE j \in 1..Len(s) :
                        /\ \A i \in 1..Len(s) :
                              s[i].relevance_score <= s[j].relevance_score
                        /\ \A i \in 1..(j - 1) :
                              s[i].relevance_score < s[j].relevance_score
             rest == [i \in 1..(Len(s) - 1) |-> IF i < top THEN s[i] ELSE s[i + 1]]
         IN  <<s[top]>> \o SortedSources(rest)

extract_source_citations(search_results) ==
    SortedSources(CollectSources(search_results, 1, <<>>))

\* if not search_results:
NoMatchesUnchecked(search_results) == FALSE
NoMatches(search_results) == search_results = <<>>

\* except Exception as e: return the fixed response and no sources.
on_exception_reraise(r) ==
    [r EXCEPT !.response = "none", !.sources = <<>>, !.raised = TRUE]
on_exception(r) ==
    [r EXCEPT !.response = "error", !.sources = <<>>, !.raised = FALSE]

\* sources = extract_source_citations(search_results): the matches the
\* citations are computed from, next to the parts that went into the context.
CitationInputIncluded(search_results, context) ==
    SubSeq(search_results, 1, Len(context))
CitationInput(search_results, context) == search_results

\* search_and_generate_response from the return of search_similar_documents
\* on: `searched` is what that call gave.
AnswerWith(query, user_id, searched, env) ==
    LET r0 == [user |-> user_id, query |-> query, fault |-> env.fault,
               response |-> "none", sources |-> <<>>, matches |-> <<>>,
               context |-> <<>>, embed_called |-> searched.embed_called,
               gen_called |-> FALSE, raised |-> FALSE]
    IN  IF searched.raised THEN on_exception(r0)
        ELSE IF NoMatches(searched.results)
        THEN [r0 EXCEPT !.response = "no_info"]
        ELSE LET gen == generate_response_with_context(query, searched.results,
                                                       env)
                 r1 == [r0 EXCEPT !.matches = searched.results,
                                  !.context = gen.context,
                                  !.gen_called = gen.gen_called]
             IN  IF gen.raised THEN on_exception(r1)
                 ELSE [r1 EXCEPT
                          !.response = gen.response,
                          !.sources = extract_source_citations(
                              CitationInput(searched.results, gen.context))]

\* search_and_generate_response
search_and_generate_response(query, user_id, idx, env) ==
    AnswerWith(query, user_id,
               search_similar_documents(query, user_id, top_k, idx, env), env)

Queries == {"", "What is the refund policy?"}

\* What the providers may do on one request.
Envs == [fault : {"none", "embed", "query", "generate"}, nearest : Docs]

\* A retrieval request: answer(query, owner_id).
Answer(u) ==
    /\ reply = NoReply
    /\ \E query \in Queries, env \in Envs :
          reply' = search_and_generate_response(query, u, index, env)
    /\ UNCHANGED <<pinecone_index, doc, status, index, pc, attempt, vectors,
                   next_batch, embedded, upserted, err, calls, outcome, prev,
                   reingests, found>>

\* The caller has the result of its request; the pipeline keeps nothing of it.
ReturnReply ==
    /\ reply # NoReply
    /\ reply' = NoReply
    /\ UNCHANGED <<pinecone_index, doc, status, index, pc, attempt, vectors,
                   next_batch, embedded, upserted, err, calls, outcome, prev,
                   reingests, found>>

(***************************************************************************)
(* search_service.py: generate_response_with_context and                   *)
(* extract_source_citations applied to the match lists a query can return.  *)
(***************************************************************************)
MaxMatches == 3     \* longest match list the citations are computed from

\* Filename of the documents whose chunks a query may match: d3 is a second
\* upload of the file of d1, d4 is a file with a long name.
NameOf(doc_id) ==
    CASE doc_id = "d3" -> Filename("d1")
      [] doc_id = "d4" -> LongName
      [] OTHER -> Filename(doc_id)

\* Lengths of the text excerpt of a match: text is chunk[:1000] of a chunk
\* of at most chunk_size characters.
TextLens == {400, 981, 1000}

\* Similarity scores of the matches, in 1/10000.
Scores == {7400, 8100, 8102, 8104, 9000}

\* The match the index returns at position j for a chunk of doc_id.
Match(doc_id, j, score, text_len) ==
    [id |-> VectorId(doc_id, j - 1),
     score |-> score,
     user_id |-> "u1",
     text_len |-> text_len,
     doc_name |-> NameOf(doc_id),
     doc_id |-> doc_id,
     chunk_id |-> j - 1]

\* The index returns one more match, up to top_k of them: a chunk of d1, d2
\* or d4 with an excerpt of any length, scored by its position.
ReturnMatch ==
    /\ reply = NoReply
    /\ Len(found) < top_k
    /\ \E d \in {"d1", "d2", "d4"}, text_len \in TextLens :
          found' = Append(found, Match(d, Len(found) + 1,
                                       ScoreAt(Len(found) + 1), text_len))
    /\ UNCHANGED <<pinecone_index, doc, status, index, pc, attempt, vectors,
                   next_batch, embedded, upserted, err, calls, outcome, prev,
                   reingests, reply>>

\* The index returns one more match: a chunk of d1, d2 or d3 with any score.
ReturnScoredMatch ==
    /\ reply = NoReply
    /\ Len(found) < Min(MaxMatches, top_k)
    /\ \E d \in {"d1", "d2", "d3"}, score \in Scores :
          found' = Append(found, Match(d, Len(found) + 1, score, 400))
    /\ UNCHANGED <<pinecone_index, doc, status, index, pc, attempt, vectors,
                   next_batch, embedded, upserted, err, calls, outcome, prev,
                   reingests, reply>>

\* The state of a request before its index query returns.
InitFound == Init /\ pinecone_index

\* search_and_generate_response after the search returned `found`.
Respond ==
    /\ reply = NoReply
    /\ \E fault \in {"none", "generate"} :
          reply' = AnswerWith("What is the refund policy?", "u1",
                              [raised |-> FALSE, embed_called |-> TRUE,
                               results |-> found],
                              [fault |-> fault, nearest |-> "d1"])
    /\ UNCHANGED <<pinecone_index, doc, status, index, pc, attempt, vectors,
                   next_batch, embedded, upserted, err, calls, outcome, prev,
                   reingests, found>>

(***************************************************************************)
(* Specifications.                                                         *)
(***************************************************************************)
\* Uploads of the documents and their ingestion runs, interleaved.
Next ==
    \/ \E d \in Docs : upload_document(d)
    \/ \E d \in Docs : process_document_embeddings(d)

Spec == Init /\ [][Next]_vars

\* The same with the background task of every document running on: each
\* external call returns or raises, so a step of the task that can be taken
\* is taken.
SpecLive ==
    /\ Init
    /\ [][Next]_vars
    /\ \A d \in Docs : WF_vars(process_document_embeddings(d))

\* One document, its ingestion run and the reruns of it.
NextRerun ==
    \/ upload_document("d1")
    \/ process_document_embeddings("d1")
    \/ Reingest("d1")

SpecRerun == Init /\ [][NextRerun]_vars

\* Uploads and ingestion runs with retrieval requests in between.  A request
\* is served in one step and answered in the next: nothing reads its result
\* but the caller, so no other step is put in between.
NextRetrieval ==
    \/ /\ reply = NoReply
       /\ \/ \E d \in Docs : upload_document(d)
          \/ \E d \in Docs : process_document_embeddings(d)
          \/ \E u \in Users : Answer(u)
    \/ ReturnReply

SpecRetrieval == Init /\ [][NextRetrieval]_vars

\* One document of more chunks than a batch takes, and its ingestion run.
NextBatch ==
    \/ upload_long_document("d1")
    \/ process_document_embeddings("d1")

SpecBatch == Init /\ [][NextBatch]_vars

\* The response step on every match list, for the context it assembles.
NextContext == ReturnMatch \/ Respond

SpecContext == InitFound /\ [][NextContext]_vars

\* The response step on every match list, for the citations it returns.
NextCitations == ReturnScoredMatch \/ Respond

SpecCitations == InitFound /\ [][NextCitations]_vars

(***************************************************************************)
(* Properties.                                                             *)
(***************************************************************************)
Last(s) == s[Len(s)]

Statuses(d) == {calls[d][k].status : k \in 1..Len(calls[d])}

ChunkIds(vs) == {v.chunk_id : v \in vs}

\* The edges of the document status state machine.
LifecycleEdge(a, b) ==
    \/ a = "none" /\ b = "pending"
    \/ a = "pending" /\ b = "processing"
    \/ a = "processing" /\ b \in {"completed", "failed"}
    \/ a \in {"completed", "failed"} /\ b = "processing"

\* C1: the stored status of a document changes only along pending ->
\* processing -> {completed, failed}, and from completed or failed back to
\* processing when a new attempt starts: it never becomes completed or
\* failed from a status other than processing.
C1_StatusLifecycle ==
    [][\A d \in Docs :
          status'[d] # status[d] => LifecycleEdge(status[d], status'[d])]_vars

\* C2: a run marks the document completed only after every chunk it embedded
\* has been upserted, and never when it upserted no vector at all.
C2_CompletedAfterUpsert ==
    \A d \in Docs :
        (pc[d] = "complete" \/ "completed" \in Statuses(d)) =>
            /\ upserted[d] # {}
            /\ embedded[d].ran
            /\ ChunkIds(upserted[d]) = embedded[d].ok

\* C3: when a run ends with the document completed, the vectors of the
\* document in its tenant's namespace are exactly the ones that run wrote.
C3_VectorsReplaced ==
    \A d \in Docs :
        (pc[d] = "done" /\ outcome[d] = "returned" /\ status[d] = "completed") =>
            DocVectors(d) = upserted[d]

\* C4, as stated: after a second run in sequence on the same document the
\* namespace holds as many vectors of the document as after the first.  It
\* is stated for the runs that both end normally and where the rerun embeds
\* at least the chunks the first run stored, so that no vector counted is a
\* leftover of the first run.
C4_SameCountAfterRerun ==
    \A d \in Docs :
        (/\ pc[d] = "done"
         /\ attempt[d] >= 2
         /\ outcome[d] = "returned"
         /\ prev[d].outcome = "returned"
         /\ prev[d].upserted \subseteq embedded[d].ok) =>
            Cardinality(DocVectors(d)) = prev[d].count

\* C4, amended: when both runs end normally and the embedding requests
\* succeed for the same chunks in both, the count after the rerun is the
\* count after the run before it.
C4_SameCountWhenSameChunks ==
    \A d \in Docs :
        (/\ pc[d] = "done"
         /\ attempt[d] >= 2
         /\ outcome[d] = "returned"
         /\ prev[d].outcome = "returned"
         /\ embedded[d].ok = prev[d].upserted) =>
            Cardinality(DocVectors(d)) = prev[d].count

C4_Witness ==
    \E d \in Docs :
        /\ pc[d] = "done"
        /\ attempt[d] >= 2
        /\ outcome[d] = "returned"
        /\ prev[d].outcome = "returned"
        /\ embedded[d].ok = 0..(MaxChunks - 1)
        /\ embedded[d].ok = prev[d].upserted
        /\ Cardinality(DocVectors(d)) = MaxChunks

\* C5: every match a request of user A gets back, and every source made of
\* it, is a vector that an ingestion run of A upserted.
C5_TenantIsolation ==
    /\ \A k \in 1..Len(reply.matches) :
          /\ reply.matches[k].user_id = reply.user
          /\ doc[reply.matches[k].doc_id].owner = reply.user
    /\ \A k \in 1..Len(reply.sources) :
          doc[reply.sources[k].doc_id].owner = reply.user

C5_Witness ==
    /\ reply.matches # <<>>
    /\ reply.sources # <<>>
    /\ \E d \in Docs : doc[d] # NoDoc /\ doc[d].owner # reply.user
                       /\ DocVectors(d) # {}

\* C6: a run that hits a fatal failure (download, extraction, chunking, no
\* vector, upsert) writes status failed as its last status write, raises to
\* its caller and never writes completed; the stored status is failed unless
\* that write was lost in the status store.
C6_FatalFailureMarksFailed ==
    \A d \in Docs :
        /\ err[d] # "none" => pc[d] \in {"except", "done"}
        /\ (pc[d] = "done" /\ err[d] # "none") =>
              /\ outcome[d] = "raised"
              /\ calls[d] # <<>>
              /\ Last(calls[d]).status = "failed"
              /\ "completed" \notin Statuses(d)
              /\ Last(calls[d]).ok => status[d] = "failed"

C6_Witness ==
    \E d \in Docs :
        /\ pc[d] = "done"
        /\ err[d] = "upsert"
        /\ outcome[d] = "raised"
        /\ status[d] = "failed"

\* C7: when the embedding request fails for every chunk, the run fails with
\* "no vectors generated": it issues no upsert, raises, and its last status
\* write is failed (stored unless the status store lost it).
C7_AllEmbeddingsFail ==
    \A d \in Docs :
        (embedded[d].ran /\ embedded[d].ok = {}) =>
            /\ err[d] = "no_vectors"
            /\ pc[d] \in {"except", "done"}
            /\ upserted[d] = {}
            /\ DocVectors(d) = {}
            /\ pc[d] = "done" =>
                  /\ outcome[d] = "raised"
                  /\ Last(calls[d]).status = "failed"
                  /\ Last(calls[d]).ok => status[d] = "failed"

C7_Witness ==
    \E d \in Docs :
        /\ embedded[d].ran
        /\ embedded[d].ok = {}
        /\ doc[d].nchunks = MaxChunks
        /\ pc[d] = "done"
        /\ status[d] = "failed"

\* Some, but not all, of the embedding requests of the run failed.
PartlyEmbedded(d) ==
    /\ embedded[d].ran
    /\ embedded[d].ok # {}
    /\ embedded[d].ok # 0..(doc[d].nchunks - 1)

\* C8: when the embedding request fails for some chunks but not all, the run
\* goes on: `vectors` holds exactly the chunks that were embedded, each under
\* the id made of its own 0-based position; when the upsert succeeds these
\* are the vectors upserted, and the run ends writing completed (stored
\* unless the status store lost the write).
C8_PartialTolerance ==
    \A d \in Docs :
        PartlyEmbedded(d) =>
            /\ err[d] \in {"none", "upsert"}
            /\ ChunkIds(SeqToSet(vectors[d])) = embedded[d].ok
            /\ \A k \in 1..Len(vectors[d]) :
                  vectors[d][k].id = VectorId(d, vectors[d][k].chunk_id)
            /\ Len(vectors[d]) = Cardinality(embedded[d].ok)
            /\ (pc[d] \in {"complete", "done"} /\ err[d] = "none") =>
                  /\ upserted[d] = SeqToSet(vectors[d])
                  /\ {v.id : v \in DocVectors(d)} =
                        {VectorId(d, i) : i \in embedded[d].ok}
            /\ (pc[d] = "done" /\ err[d] = "none") =>
                  /\ outcome[d] = "returned"
                  /\ Last(calls[d]).status = "completed"
                  /\ Last(calls[d]).ok => status[d] = "completed"

C8_Witness ==
    \E d \in Docs :
        /\ PartlyEmbedded(d)
        /\ 0 \notin embedded[d].ok
        /\ pc[d] = "done"
        /\ status[d] = "completed"
        /\ {v.id : v \in DocVectors(d)} = {VectorId(d, i) : i \in embedded[d].ok}

\* A call of the request failed: the index is not initialised, or the
\* embedding, the index query or the generation call raised.
RequestFailed ==
    \/ ~pinecone_index
    \/ reply.fault \in {"embed", "query"}
    \/ reply.fault = "generate" /\ reply.gen_called

\* C9: a retrieval request never raises; when one of its calls fails it
\* returns the fixed error response and no sources.
C9_AnswerNeverRaises ==
    reply # NoReply =>
        /\ ~reply.raised
        /\ reply.response \in {"error", "no_info", "generated"}
        /\ RequestFailed => (reply.response = "error" /\ reply.sources = <<>>)

C9_Witness ==
    /\ reply # NoReply
    /\ reply.fault = "generate"
    /\ reply.gen_called
    /\ reply.matches # <<>>
    /\ reply.response = "error"

\* C10: when the index query of the tenant's namespace gives no match, the
\* request returns the fixed "no relevant information" response with no
\* sources, and the generation provider is not called.
C10_NoMatches ==
    (/\ reply # NoReply
     /\ pinecone_index
     /\ reply.fault \notin {"embed", "query"}
     /\ index[Namespace(reply.user)] = {}) =>
        /\ reply.response = "no_info"
        /\ reply.sources = <<>>
        /\ ~reply.gen_called
        /\ ~reply.raised

C10_Witness ==
    /\ reply.response = "no_info"
    /\ index[Namespace(reply.user)] = {}
    /\ \E d \in Docs : doc[d] # NoDoc /\ doc[d].owner # reply.user
                       /\ DocVectors(d) # {}

\* C11: the context sent to the generation provider, separators between the
\* chunks counted, is at most max_context_length characters long.
C11_ContextWithinBudget ==
    reply.gen_called => JoinedLength(reply.context) <= max_context_length

\* C12: when the first formatted chunk alone is longer than the budget, no
\* chunk is included, the context is empty and the generation provider is
\* still called; with the provider answering, the outcome is the generated
\* response.
C12_FirstChunkOverBudget ==
    (/\ reply # NoReply
     /\ found # <<>>
     /\ FormattedLength(found[1]) > max_context_length) =>
        /\ reply.context = <<>>
        /\ reply.gen_called
        /\ reply.fault = "none" =>
              (reply.response = "generated" /\ ~reply.raised)

C12_Witness ==
    /\ reply # NoReply
    /\ reply.fault = "none"
    /\ Len(found) >= 2
    /\ FormattedLength(found[1]) > max_context_length
    /\ FormattedLength(found[2]) <= max_context_length
    /\ reply.response = "generated"
    /\ reply.context = <<>>

\* The request ended with the generated response and its citations.
Cited == reply # NoReply /\ reply.response = "generated"

\* C13: the citation list holds no two entries with the same doc_name, and
\* holds an entry for exactly the doc_names that occur in the matches.
C13_OneSourcePerName ==
    Cited =>
        /\ \A i, j \in 1..Len(reply.sources) :
              reply.sources[i].doc_name = reply.sources[j].doc_name => i = j
        /\ {reply.sources[i].doc_name : i \in 1..Len(reply.sources)} =
              {found[k].doc_name : k \in 1..Len(found)}

C13_Witness ==
    /\ Cited
    /\ Len(found) = 3
    /\ {found[k].doc_id : k \in 1..3} = {"d1", "d2", "d3"}
    /\ Len(reply.sources) = 2

\* The highest score among the matches of a doc_name, and the position of
\* the first match of that name that has it.
MaxScore(doc_name) ==
    CHOOSE x \in {found[k].score : k \in 1..Len(found)} :
        /\ \E k \in 1..Len(found) :
              found[k].doc_name = doc_name /\ found[k].score = x
        /\ \A k \in 1..Len(found) :
              found[k].doc_name = doc_name => found[k].score <= x

FirstBest(doc_name) ==
    CHOOSE k \in 1..Len(found) :
        /\ found[k].doc_name = doc_name
        /\ found[k].score = MaxScore(doc_name)
        /\ \A i \in 1..(k - 1) :
              ~(found[i].doc_name = doc_name /\
                found[i].score = MaxScore(doc_name))

\* C14: the Source of a doc_name carries the highest score among the matches
\* of that name, rounded to 3 decimals, and is the first seen of the matches
\* that have that score.
C14_HighestScoreFirstSeen ==
    Cited =>
        \A i \in 1..Len(reply.sources) :
            LET src == reply.sources[i]
            IN  /\ src.relevance_score = Round3(MaxScore(src.doc_name))
                /\ src.doc_id = found[FirstBest(src.doc_name)].doc_id

\* Position of the first match of a doc_name.
FirstSeen(doc_name) ==
    CHOOSE k \in 1..Len(found) :
        /\ found[k].doc_name = doc_name
        /\ \A i \in 1..(k - 1) : found[i].doc_name # doc_name

\* C15: the citation list is ordered by relevance_score descending, and
\* Sources of equal relevance_score are in the order in which their doc_name
\* was first seen in the matches.
C15_SortedByScore ==
    Cited =>
        \A i \in 1..(Len(reply.sources) - 1) :
            LET a == reply.sources[i]
                b == reply.sources[i + 1]
            IN  /\ a.relevance_score >= b.relevance_score
                /\ a.relevance_score = b.relevance_score =>
                      FirstSeen(a.doc_name) < FirstSeen(b.doc_name)

\* policy.pdf 0.81 and 0.74 plus faq.pdf 0.90 gives [faq.pdf 0.9,
\* policy.pdf 0.81].
C15_Witness ==
    /\ Cited
    /\ Len(found) = 3
    /\ found[1].doc_name = "policy.pdf" /\ found[1].score = 8100
    /\ found[2].doc_name = "policy.pdf" /\ found[2].score = 7400
    /\ found[3].doc_name = "faq.pdf" /\ found[3].score = 9000
    /\ Len(reply.sources) = 2
    /\ reply.sources[1].doc_name = "faq.pdf"
    /\ reply.sources[1].relevance_score = 9000
    /\ reply.sources[2].doc_name = "policy.pdf"
    /\ reply.sources[2].relevance_score = 8100

\* C16: on the successful path with at least one match, every document among
\* the matches of the index query has its Source, whatever number of chunks
\* went into the context.
C16_SourcesFromAllMatches ==
    (Cited /\ found # <<>>) =>
        /\ reply.matches = found
        /\ \A k \in 1..Len(found) :
              \E i \in 1..Len(reply.sources) :
                  reply.sources[i].doc_name = found[k].doc_name

\* The context is empty and a second document, cut off with it, is cited.
C16_Witness ==
    /\ Cited
    /\ reply.context = <<>>
    /\ Len(found) >= 2
    /\ found[2].doc_name # found[1].doc_name
    /\ \E i \in 1..Len(reply.sources) :
          reply.sources[i].doc_name = found[2].doc_name

\* C17: a request with an empty query never calls the embedding provider.
C17_EmptyQueryNotEmbedded ==
    (reply # NoReply /\ reply.query = "") => ~reply.embed_called

\* C18: a status write, failed or not, is followed by the same step of the
\* attempt: it raises nothing, the attempt goes on (or ends) as after a
\* successful write, and nothing but the stored status depends on it.
C18_StatusWriteSwallowed ==
    [][\A d \in Docs :
          Len(calls'[d]) = Len(calls[d]) + 1 =>
              LET w == Last(calls'[d])
              IN  /\ err'[d] = err[d]
                  /\ pc'[d] = (IF w.status = "processing" THEN "download"
                               ELSE "done")
                  /\ outcome'[d] = (CASE w.status = "processing" -> outcome[d]
                                      [] w.status = "completed" -> "returned"
                                      [] w.status = "failed" -> "raised")
                  /\ UNCHANGED <<index, vectors, next_batch, embedded,
                                 upserted, doc, attempt>>
                  /\ ~w.ok => status' = status]_vars

\* An attempt whose status writes all failed has embedded and upserted its
\* chunks and returned.
C18_Witness ==
    \E d \in Docs :
        /\ pc[d] = "done"
        /\ outcome[d] = "returned"
        /\ Len(calls[d]) = 2
        /\ \A k \in 1..Len(calls[d]) : ~calls[d][k].ok
        /\ status[d] = "pending"
        /\ DocVectors(d) # {}
        /\ {v.chunk_id : v \in DocVectors(d)} = embedded[d].ok

\* The status the writes of a document's own attempt leave: that of the last
\* write the store applied, 'pending' from the upload when none was.
OwnStatus(d) ==
    LET applied == {k \in 1..Len(calls[d]) : calls[d][k].ok}
    IN  IF doc[d] = NoDoc THEN "none"
        ELSE IF applied = {} THEN "pending"
        ELSE calls[d][CHOOSE k \in applied : \A j \in applied : j <= k].status

\* C19: under every interleaving of the attempts of two documents, the
\* vectors of a document in the index are those its own attempt upserted,
\* under its own ids and in its owner's namespace, and its status is the one
\* its own attempt wrote.
C19_DocumentsIndependent ==
    \A d \in Docs :
        /\ DocVectors(d) = upserted[d]
        /\ \A ns \in Namespaces : \A v \in index[ns] :
              v.doc_id = d =>
                  /\ ns = Namespace(doc[d].owner)
                  /\ v.id = VectorId(d, v.chunk_id)
        /\ status[d] = OwnStatus(d)

\* Two documents of one tenant, both attempts under way at the same time,
\* both with their vectors in the shared namespace.
C19_Witness ==
    /\ doc["d1"] # NoDoc /\ doc["d2"] # NoDoc
    /\ doc["d1"].owner = doc["d2"].owner
    /\ pc["d1"] = "complete" /\ pc["d2"] = "complete"
    /\ Cardinality(DocVectors("d1")) = 2
    /\ Cardinality(DocVectors("d2")) = 2

\* What the upsert loop of a document has done so far: the vectors sent are
\* the first next_batch of the list `vectors`, which is in chunk order; they
\* are all in the namespace; after a failed upsert some of the list is left
\* unsent, and the run ends with the 'failed' write and the error re-raised.
BatchesInOrder(d) ==
    embedded[d].ran =>
        /\ next_batch[d] % batch_size = 0
        /\ \A i, j \in 1..Len(vectors[d]) :
              i < j => vectors[d][i].chunk_id < vectors[d][j].chunk_id
        /\ upserted[d] =
              SeqToSet(SubSeq(vectors[d], 1,
                              Min(next_batch[d], Len(vectors[d]))))
        /\ DocVectors(d) = upserted[d]
        /\ err[d] = "upsert" =>
              /\ next_batch[d] < Len(vectors[d])
              /\ pc[d] \in {"except", "done"}
              /\ pc[d] = "done" =>
                    /\ Last(calls[d]).status = "failed"
                    /\ Last(calls[d]).ok => status[d] = "failed"
                    /\ outcome[d] = "raised"

\* C20: the vectors are upserted in consecutive batches of at most
\* batch_size in chunk order; after a failed upsert no later batch is sent,
\* the run ends failed with the error re-raised, and the batches upserted
\* before stay in the namespace.
C20_BatchedUpsert ==
    [][\A d \in Docs :
          /\ BatchesInOrder(d)'
          /\ Cardinality(upserted'[d] \ upserted[d]) <= batch_size
          /\ err[d] = "upsert" =>
                (upserted'[d] = upserted[d] /\ DocVectors(d)' = DocVectors(d))
      ]_vars

\* The third batch of a run failed: the run has ended failed, the 200
\* vectors of the first two batches are in the namespace, one is unsent.
C20_Witness ==
    /\ pc["d1"] = "done"
    /\ err["d1"] = "upsert"
    /\ outcome["d1"] = "raised"
    /\ status["d1"] = "failed"
    /\ Len(vectors["d1"]) = 2 * batch_size + 1
    /\ next_batch["d1"] = 2 * batch_size
    /\ Cardinality(DocVectors("d1")) = 2 * batch_size

\* C21: the chunks in the context are the first ones of the match list, in
\* its order, up to the first chunk that would push the running total over
\* the budget; no later match is included.
C21_ContextIsPrefix ==
    (reply # NoReply /\ reply.gen_called) =>
        LET n == Len(reply.context)
        IN  /\ n <= Len(found)
            /\ \A k \in 1..n : reply.context[k] = FormattedLength(found[k])
            /\ n < Len(found) =>
                  SumSeq(reply.context) + FormattedLength(found[n + 1]) >
                      max_context_length

\* Assembly stopped with chunks in the context, and a match after the one
\* that did not fit would still have fitted.
C21_Witness ==
    /\ reply # NoReply
    /\ reply.gen_called
    /\ reply.context # <<>>
    /\ \E j \in (Len(reply.context) + 2)..Len(found) :
          SumSeq(reply.context) + FormattedLength(found[j]) <=
              max_context_length

\* C22: every scheduled ingestion attempt eventually leaves the stored
\* status of its document at completed or failed.
C22_StatusEventuallyFinal ==
    \A d \in Docs :
        (pc[d] = "start") ~> (status[d] \in {"completed", "failed"})

\* C23: the doc_id of the Source of a doc_name is the doc_id of a match of
\* that name whose score is the highest among the matches of the name.
C23_DocIdOfBestMatch ==
    Cited =>
        \A i \in 1..Len(reply.sources) :
            \E k \in 1..Len(found) :
                /\ found[k].doc_name = reply.sources[i].doc_name
                /\ found[k].doc_id = reply.sources[i].doc_id
                /\ found[k].score = MaxScore(reply.sources[i].doc_name)
====
